---- MODULE Spec2Model ----
(***************************************************************************)
(* tt-csv-matcher: the matching engine (core/matching.py) and the scoring  *)
(* engine (core/scoring.py).                                               *)
(*                                                                         *)
(* Numbers.  Python floats are modelled exactly:                           *)
(*   - a similarity is a rational <<num, den>> in [0,1];                   *)
(*   - a weight is an integer number of hundredths (0.30 -> 30);           *)
(*   - a confidence, which the code rounds to 4 decimals, is the integer   *)
(*     number of ten-thousandths (1.0 -> 10000, 0.9 -> 9000).              *)
(* Strings are sequences of one-character strings.                         *)
(***************************************************************************)
EXTENDS Integers, Sequences, FiniteSets, TLC

VARIABLES
    ref_players,      \* match_players argument: the reference list
    event_players,    \* match_players argument: the event list
    fuzzy_threshold,  \* match_players argument: last-name threshold (rational)
    name_index,       \* local of match_players: (last, first) -> list of refs
    swap_index,       \* local of match_players: (first, last) -> list of refs
    results,          \* local of match_players: the result list being built
    idx,              \* position of the for loop in event_players (1-based)
    pc,               \* where match_players stands
    args,             \* scoring functions called directly: the arguments
    ret               \* scoring functions called directly: what was returned

vars == <<ref_players, event_players, fuzzy_threshold, name_index, swap_index,
          results, idx, pc, args, ret>>

matchVars == <<ref_players, event_players, fuzzy_threshold, name_index,
               swap_index, results, idx, pc>>

-----------------------------------------------------------------------------
(* Arithmetic helpers                                                      *)

Max(a, b) == IF a >= b THEN a ELSE b

Min(a, b) == IF a <= b THEN a ELSE b

SetMin(S) == CHOOSE x \in S : \A y \in S : x <= y

RECURSIVE Gcd(_, _)
Gcd(a, b) == IF b = 0 THEN a ELSE Gcd(b, a % b)

\* a rational in lowest terms
Rat(n, d) == LET g == Gcd(n, d) IN <<n \div g, d \div g>>

RatLess(a, b) == a[1] * b[2] < b[1] * a[2]

RatGeq(a, b) == ~RatLess(a, b)

RatEq(a, b) == a[1] * b[2] = b[1] * a[2]

RatMax(a, b) == IF RatLess(a, b) THEN b ELSE a

RatAdd(a, b) == Rat(a[1] * b[2] + b[1] * a[2], a[2] * b[2])

RatScale(k, a) == Rat(k * a[1], a[2])

\* the integer nearest to a rational q >= 0, a tie going to the even one
RoundHalfEven(q) ==
    LET fl == q[1] \div q[2]
        rem == q[1] % q[2]
    IN  IF 2 * rem > q[2] THEN fl + 1
        ELSE IF 2 * rem < q[2] THEN fl
        ELSE IF fl % 2 = 0 THEN fl ELSE fl + 1

RatOne == <<1, 1>>

RatZero == <<0, 1>>

-----------------------------------------------------------------------------
(* Strings: sequences of characters.  The alphabet is ASCII letters, the   *)
(* space, the punctuation the tolerant comparison removes, and a few       *)
(* non-ASCII characters named by a token: "e_acute" is U+00E9, "acute" is  *)
(* the combining mark U+0301, "u_uml" is U+00FC, "uml" is U+0308, "sz" is  *)
(* U+00DF (whose upper case is the two letters SS).                        *)

LowerChars == <<"a", "b", "c", "d", "e", "f", "g", "h", "i", "j", "k", "l", "m",
                "n", "o", "p", "q", "r", "s", "t", "u", "v", "w", "x", "y", "z",
                "e_acute", "u_uml">>

UpperChars == <<"A", "B", "C", "D", "E", "F", "G", "H", "I", "J", "K", "L", "M",
                "N", "O", "P", "Q", "R", "S", "T", "U", "V", "W", "X", "Y", "Z",
                "E_acute", "U_uml">>

Whitespace == {" "}

\* str.upper() on one character: a sequence, since U+00DF becomes "SS"
upper_char(c) ==
    LET I == {i \in 1..Len(LowerChars) : LowerChars[i] = c}
    IN  IF c = "sz" THEN <<"S", "S">>
        ELSE IF I = {} THEN <<c>>
        ELSE <<UpperChars[CHOOSE i \in I : TRUE]>>

RECURSIVE upper(_)
upper(s) == IF s = <<>> THEN <<>> ELSE upper_char(Head(s)) \o upper(Tail(s))

RECURSIVE lstrip(_)
lstrip(s) == IF s # <<>> /\ Head(s) \in Whitespace THEN lstrip(Tail(s)) ELSE s

RECURSIVE rstrip(_)
rstrip(s) ==
    IF s # <<>> /\ s[Len(s)] \in Whitespace
    THEN rstrip(SubSeq(s, 1, Len(s) - 1))
    ELSE s

strip(s) == rstrip(lstrip(s))

\* faulty variant of normalize_key: the key keeps the case of the name
normalize_key_case_sensitive(value) == strip(value)

\* core/matching.py _normalize_key: value.strip().upper()
normalize_key(value) == upper(strip(value))

-----------------------------------------------------------------------------
(* The similarity primitive, rapidfuzz JaroWinkler.similarity with its     *)
(* defaults (prefix weight 0.1, prefix length at most 4, the prefix bonus  *)
(* applied only above a Jaro similarity of 0.7).  Exact rational value.    *)

\* the match window of Jaro
JaroBound(s1, s2) == Max(0, Max(Len(s1), Len(s2)) \div 2 - 1)

\* Scan s1 left to right; each character takes the first character of s2
\* inside the window that is equal and not yet taken.  f1, f2: the matched
\* positions of s1 and of s2.
RECURSIVE JaroScan(_, _, _, _, _)
JaroScan(s1, s2, i, f1, f2) ==
    IF i > Len(s1) THEN <<f1, f2>>
    ELSE LET lo == Max(1, i - JaroBound(s1, s2))
             hi == Min(Len(s2), i + JaroBound(s1, s2))
             cand == {j \in lo..hi : j \notin f2 /\ s1[i] = s2[j]}
         IN  IF cand = {} THEN JaroScan(s1, s2, i + 1, f1, f2)
             ELSE JaroScan(s1, s2, i + 1, f1 \cup {i}, f2 \cup {SetMin(cand)})

\* the characters of s at the positions in f, in order
RECURSIVE Pick(_, _, _)
Pick(s, f, i) ==
    IF i > Len(s) THEN <<>>
    ELSE (IF i \in f THEN <<s[i]>> ELSE <<>>) \o Pick(s, f, i + 1)

Jaro(s1, s2) ==
    IF Len(s1) = 0 /\ Len(s2) = 0 THEN RatOne
    ELSE IF Len(s1) = 0 \/ Len(s2) = 0 THEN RatZero
    ELSE LET f == JaroScan(s1, s2, 1, {}, {})
             m == Cardinality(f[1])
             a == Pick(s1, f[1], 1)
             b == Pick(s2, f[2], 1)
             t == Cardinality({k \in 1..m : a[k] # b[k]}) \div 2
         IN  IF m = 0 THEN RatZero
             ELSE Rat(m * Len(s2) * m + m * Len(s1) * m + (m - t) * Len(s1) * Len(s2),
                      3 * Len(s1) * Len(s2) * m)

\* the common prefix counts up to 4 characters
CommonPrefix(s1, s2) ==
    LET n == Min(4, Min(Len(s1), Len(s2)))
        D == {k \in 1..n : s1[k] # s2[k]}
    IN  IF D = {} THEN n ELSE SetMin(D) - 1

\* sim = jaro + prefix * 0.1 * (1 - jaro) when jaro > 0.7
JaroWinklerSimilarity(s1, s2) ==
    LET j == Jaro(s1, s2)
        p == CommonPrefix(s1, s2)
    IN  IF RatLess(<<7, 10>>, j)
        THEN Rat(10 * j[1] + p * (j[2] - j[1]), 10 * j[2])
        ELSE j

-----------------------------------------------------------------------------
(* core/__init__.py: the records                                           *)

Player(id, ln, fn, sx, assoc, d, m, y) ==
    [extern_id |-> id, last_name |-> ln, first_name |-> fn, sex |-> sx,
     association |-> assoc, dob |-> d, mob |-> m, yob |-> y]

\* Python's None (MatchResult.ref_player is Optional[Player])
None == [none |-> TRUE]

MatchResult(event, ref, mt, conf, conf_tolerant, iss) ==
    [event_player |-> event, ref_player |-> ref, match_type |-> mt,
     confidence |-> conf, confidence_tolerant |-> conf_tolerant, issues |-> iss]

-----------------------------------------------------------------------------
(* core/scoring.py                                                         *)

\* faulty variant of WEIGHTS: the weights of day and year exchanged
WEIGHTS_day_year_exchanged ==
    [lastname |-> 30, firstname |-> 25, dob |-> 15, mob |-> 10,
     yob |-> 10, sex |-> 5, association |-> 5]

\* faulty variant of WEIGHTS: the last name weighs 0.40, the sum is 1.10
WEIGHTS_heavy_lastname ==
    [lastname |-> 40, firstname |-> 25, dob |-> 10, mob |-> 10,
     yob |-> 15, sex |-> 5, association |-> 5]

\* the weights, in hundredths
WEIGHTS == [lastname |-> 30, firstname |-> 25, dob |-> 10, mob |-> 10,
            yob |-> 15, sex |-> 5, association |-> 5]

\* faulty variant of is_dob_mob_swapped: a transposition is never detected
is_dob_mob_swapped_never(event, ref) == FALSE

\* faulty variant of is_dob_mob_swapped: the guard day != month is missing
is_dob_mob_swapped_no_guard(event, ref) ==
    /\ event.dob = ref.mob
    /\ event.mob = ref.dob
    /\ event.yob = ref.yob

is_dob_mob_swapped(event, ref) ==
    /\ event.dob = ref.mob
    /\ event.mob = ref.dob
    /\ event.yob = ref.yob
    /\ event.dob # event.mob

\* 1.0 if cond else 0.0
Ind(cond) == IF cond THEN 1 ELSE 0

\* faulty variant of FieldTerms: a transposed date earns no credit
FieldTerms_no_swap_credit(event, ref) ==
      WEIGHTS.dob * Ind(event.dob = ref.dob)
    + WEIGHTS.mob * Ind(event.mob = ref.mob)
    + WEIGHTS.yob * Ind(event.yob = ref.yob)
    + WEIGHTS.sex * Ind(upper(event.sex) = upper(ref.sex))
    + WEIGHTS.association * Ind(upper(event.association) = upper(ref.association))

\* the five non-name terms of the weighted sum, in hundredths
FieldTerms(event, ref) ==
    LET dob_swapped == is_dob_mob_swapped(event, ref)
    IN    WEIGHTS.dob * Ind(event.dob = ref.dob \/ dob_swapped)
        + WEIGHTS.mob * Ind(event.mob = ref.mob \/ dob_swapped)
        + WEIGHTS.yob * Ind(event.yob = ref.yob)
        + WEIGHTS.sex * Ind(upper(event.sex) = upper(ref.sex))
        + WEIGHTS.association * Ind(upper(event.association) = upper(ref.association))

\* the weighted sum before rounding, in hundredths (a rational)
WeightedScore(event, ref, lastname_sim, firstname_sim) ==
    RatAdd(RatScale(WEIGHTS.lastname, lastname_sim),
           RatAdd(RatScale(WEIGHTS.firstname, firstname_sim),
                  <<FieldTerms(event, ref), 1>>))

\* faulty variant of round4: the score is rounded up, not to the nearest
round4_ceil(score) ==
    LET q == RatScale(100, score)
    IN  IF q[1] % q[2] = 0 THEN q[1] \div q[2] ELSE q[1] \div q[2] + 1

\* round(score, 4), in ten-thousandths; score is given in hundredths
round4(score) == RoundHalfEven(RatScale(100, score))

calculate_confidence(event, ref, lastname_sim, firstname_sim) ==
    round4(WeightedScore(event, ref, lastname_sim, firstname_sim))

\* unicodedata.normalize('NFD', ch) for one character
nfd_char(c) ==
    CASE c = "e_acute" -> <<"e", "acute">>
      [] c = "E_acute" -> <<"E", "acute">>
      [] c = "u_uml"   -> <<"u", "uml">>
      [] c = "U_uml"   -> <<"U", "uml">>
      [] OTHER         -> <<c>>

\* the canonical decomposition, character by character
RECURSIVE nfd_decompose(_)
nfd_decompose(s) ==
    IF s = <<>> THEN <<>> ELSE nfd_char(Head(s)) \o nfd_decompose(Tail(s))

\* unicodedata.combining(ch): the canonical combining class.  "candrabindu"
\* is U+0900 (category Mn, class 0), "stem" is U+1D165 and "aug_dot" is
\* U+1D16D (both category Mc)
combining_class(c) ==
    CASE c \in {"acute", "uml"} -> 230
      [] c = "stem"              -> 216
      [] c = "aug_dot"           -> 226
      [] OTHER                   -> 0

\* the canonical ordering of NFD: within a run of characters of non-zero
\* combining class, a character of higher class never precedes one of lower
RECURSIVE canonical_order(_)
canonical_order(s) ==
    LET Bad == {i \in 1..(Len(s) - 1) :
                   /\ combining_class(s[i + 1]) > 0
                   /\ combining_class(s[i]) > combining_class(s[i + 1])}
    IN  IF Bad = {} THEN s
        ELSE LET i == SetMin(Bad)
             IN  canonical_order([k \in DOMAIN s |->
                     IF k = i THEN s[i + 1] ELSE IF k = i + 1 THEN s[i] ELSE s[k]])

\* unicodedata.normalize('NFD', text)
nfd(s) == canonical_order(nfd_decompose(s))

\* the characters of Unicode category Mn in the alphabet
CategoryMn == {"acute", "uml", "candrabindu"}

\* the characters normalize_for_tolerant_comparison removes
TolerantRemoved == {" ", "-", ".", ",", ";"}

RECURSIVE Without(_, _)
Without(s, S) ==
    IF s = <<>> THEN <<>>
    ELSE (IF Head(s) \in S THEN <<>> ELSE <<Head(s)>>) \o Without(Tail(s), S)

\* faulty variant of normalize_for_tolerant_comparison: the five
\* punctuation characters are kept
normalize_keep_punctuation(text) == upper(Without(nfd(text), CategoryMn))

normalize_for_tolerant_comparison(text) ==
    upper(Without(Without(nfd(text), CategoryMn), TolerantRemoved))

\* faulty variant of calculate_confidence_tolerant: the similarity of the
\* normalized forms replaces the one passed in, without the maximum
calculate_confidence_tolerant_no_max(event, ref, lastname_sim, firstname_sim) ==
    LET norm_event_ln == normalize_for_tolerant_comparison(event.last_name)
        norm_ref_ln == normalize_for_tolerant_comparison(ref.last_name)
        norm_event_fn == normalize_for_tolerant_comparison(event.first_name)
        norm_ref_fn == normalize_for_tolerant_comparison(ref.first_name)
        ln_sim_t == JaroWinklerSimilarity(norm_event_ln, norm_ref_ln)
        fn_sim_t == JaroWinklerSimilarity(norm_event_fn, norm_ref_fn)
    IN  round4(WeightedScore(event, ref, ln_sim_t, fn_sim_t))

calculate_confidence_tolerant(event, ref, lastname_sim, firstname_sim) ==
    LET norm_event_ln == normalize_for_tolerant_comparison(event.last_name)
        norm_ref_ln == normalize_for_tolerant_comparison(ref.last_name)
        norm_event_fn == normalize_for_tolerant_comparison(event.first_name)
        norm_ref_fn == normalize_for_tolerant_comparison(ref.first_name)
        ln_sim_t == IF norm_event_ln = norm_ref_ln THEN RatOne
                    ELSE RatMax(lastname_sim,
                                JaroWinklerSimilarity(norm_event_ln, norm_ref_ln))
        fn_sim_t == IF norm_event_fn = norm_ref_fn THEN RatOne
                    ELSE RatMax(firstname_sim,
                                JaroWinklerSimilarity(norm_event_fn, norm_ref_fn))
    IN  round4(WeightedScore(event, ref, ln_sim_t, fn_sim_t))

\* [x] if cond else []
Emit(cond, x) == IF cond THEN <<x>> ELSE <<>>

\* faulty variant of detect_issues: the fuzzy codes do not look at the match type
detect_issues_fuzzy_any(event, ref, match_type, lastname_sim, firstname_sim) ==
       Emit(match_type = "NAME_SWAP", "NAME_SWAPPED")
    \o Emit(RatLess(lastname_sim, RatOne), "LASTNAME_FUZZY")
    \o Emit(RatLess(firstname_sim, RatOne), "FIRSTNAME_FUZZY")
    \o (IF is_dob_mob_swapped(event, ref)
        THEN <<"DOB_MOB_SWAPPED">>
        ELSE    Emit(event.dob # ref.dob, "DOB_MISMATCH")
             \o Emit(event.mob # ref.mob, "MOB_MISMATCH"))
    \o Emit(event.yob # ref.yob, "YOB_MISMATCH")
    \o Emit(upper(event.sex) # upper(ref.sex), "SEX_MISMATCH")
    \o Emit(upper(event.association) # upper(ref.association), "ASSOC_MISMATCH")

\* faulty variant of detect_issues: the mismatch codes are not suppressed by a swap
detect_issues_no_suppress(event, ref, match_type, lastname_sim, firstname_sim) ==
       Emit(match_type = "NAME_SWAP", "NAME_SWAPPED")
    \o Emit(RatLess(lastname_sim, RatOne) /\ match_type = "FUZZY", "LASTNAME_FUZZY")
    \o Emit(RatLess(firstname_sim, RatOne) /\ match_type = "FUZZY", "FIRSTNAME_FUZZY")
    \o Emit(is_dob_mob_swapped(event, ref), "DOB_MOB_SWAPPED")
    \o Emit(event.dob # ref.dob, "DOB_MISMATCH")
    \o Emit(event.mob # ref.mob, "MOB_MISMATCH")
    \o Emit(event.yob # ref.yob, "YOB_MISMATCH")
    \o Emit(upper(event.sex) # upper(ref.sex), "SEX_MISMATCH")
    \o Emit(upper(event.association) # upper(ref.association), "ASSOC_MISMATCH")

detect_issues(event, ref, match_type, lastname_sim, firstname_sim) ==
       Emit(match_type = "NAME_SWAP", "NAME_SWAPPED")
    \o Emit(RatLess(lastname_sim, RatOne) /\ match_type = "FUZZY", "LASTNAME_FUZZY")
    \o Emit(RatLess(firstname_sim, RatOne) /\ match_type = "FUZZY", "FIRSTNAME_FUZZY")
    \o (IF is_dob_mob_swapped(event, ref)
        THEN <<"DOB_MOB_SWAPPED">>
        ELSE    Emit(event.dob # ref.dob, "DOB_MISMATCH")
             \o Emit(event.mob # ref.mob, "MOB_MISMATCH"))
    \o Emit(event.yob # ref.yob, "YOB_MISMATCH")
    \o Emit(upper(event.sex) # upper(ref.sex), "SEX_MISMATCH")
    \o Emit(upper(event.association) # upper(ref.association), "ASSOC_MISMATCH")

-----------------------------------------------------------------------------
(* core/matching.py                                                        *)

DEFAULT_LASTNAME_THRESHOLD == <<85, 100>>

DEFAULT_FIRSTNAME_THRESHOLD == <<80, 100>>

\* the key of _build_name_index: (last, first), normalized
NameKey(p) == <<normalize_key(p.last_name), normalize_key(p.first_name)>>

\* the key of _build_swap_index: (first, last), normalized
SwapKey(p) == <<normalize_key(p.first_name), normalize_key(p.last_name)>>

\* faulty variant of build_name_index: the names are the keys as they are
\* written, without _normalize_key
build_name_index_raw_key(players) ==
    [k \in {<<players[i].last_name, players[i].first_name>> : i \in DOMAIN players} |->
        LET HasKey(p) == <<p.last_name, p.first_name>> = k
        IN  SelectSeq(players, HasKey)]

\* a dict from each key to the players with that key, in list order
build_name_index(players) ==
    [k \in {NameKey(players[i]) : i \in DOMAIN players} |->
        LET HasKey(p) == NameKey(p) = k IN SelectSeq(players, HasKey)]

build_swap_index(players) ==
    [k \in {SwapKey(players[i]) : i \in DOMAIN players} |->
        LET HasKey(p) == SwapKey(p) = k IN SelectSeq(players, HasKey)]

\* dict.get(key) as the stages use it: a missing key gives None, which is
\* as false as the empty list, modelled as <<>>
dict_get(index, key) == IF key \in DOMAIN index THEN index[key] ELSE <<>>

\* faulty variant of pick_is_better: >= lets a later candidate take a tie
pick_is_better_geq(confidence, best_confidence) == confidence >= best_confidence

\* matching.py line 62: the update test of _pick_best_candidate
pick_is_better(confidence, best_confidence) == confidence > best_confidence

\* the for loop of _pick_best_candidate from candidate k on
RECURSIVE PickLoop(_, _, _, _, _, _, _, _)
PickLoop(event, candidates, match_type, lastname_sim, firstname_sim, k, best_result, best_confidence) ==
    IF k > Len(candidates) THEN best_result
    ELSE LET ref == candidates[k]
             ln_sim == IF match_type = "NAME_SWAP" THEN RatOne ELSE lastname_sim
             fn_sim == IF match_type = "NAME_SWAP" THEN RatOne ELSE firstname_sim
             confidence == calculate_confidence(event, ref, ln_sim, fn_sim)
         IN  IF pick_is_better(confidence, best_confidence)
             THEN PickLoop(event, candidates, match_type, lastname_sim,
                           firstname_sim, k + 1,
                           MatchResult(event, ref, match_type, confidence,
                               calculate_confidence_tolerant(event, ref, ln_sim, fn_sim),
                               detect_issues(event, ref, match_type, ln_sim, fn_sim)),
                           confidence)
             ELSE PickLoop(event, candidates, match_type, lastname_sim,
                           firstname_sim, k + 1, best_result, best_confidence)

\* faulty variant of pick_best_candidate: the initial best is 1.0, which no
\* candidate exceeds
pick_best_candidate_initial_one(event, candidates, match_type, lastname_sim, firstname_sim) ==
    PickLoop(event, candidates, match_type, lastname_sim, firstname_sim,
             1, None, 10000)

\* best_confidence starts at -1.0; the result is None only if no candidate
\* was taken, where the code's assert fails
pick_best_candidate(event, candidates, match_type, lastname_sim, firstname_sim) ==
    PickLoop(event, candidates, match_type, lastname_sim, firstname_sim,
             1, None, -10000)

\* matching.py line 109: the two thresholds of the fuzzy stage
passes_thresholds(ln_sim, fn_sim, lastname_threshold, firstname_threshold) ==
    RatGeq(ln_sim, lastname_threshold) /\ RatGeq(fn_sim, firstname_threshold)

\* matching.py line 111: the update test of _try_fuzzy_match
fuzzy_is_better(confidence, best_confidence) == confidence > best_confidence

\* the for loop of _try_fuzzy_match from reference k on
RECURSIVE FuzzyLoop(_, _, _, _, _, _, _)
FuzzyLoop(event, refs, lastname_threshold, firstname_threshold, k, best_result, best_confidence) ==
    IF k > Len(refs) THEN best_result
    ELSE LET ref == refs[k]
             ln_sim == JaroWinklerSimilarity(normalize_key(event.last_name),
                                             normalize_key(ref.last_name))
             fn_sim == JaroWinklerSimilarity(normalize_key(event.first_name),
                                             normalize_key(ref.first_name))
             confidence == calculate_confidence(event, ref, ln_sim, fn_sim)
         IN  IF /\ passes_thresholds(ln_sim, fn_sim, lastname_threshold,
                                     firstname_threshold)
                /\ fuzzy_is_better(confidence, best_confidence)
             THEN FuzzyLoop(event, refs, lastname_threshold, firstname_threshold,
                            k + 1,
                            MatchResult(event, ref, "FUZZY", confidence,
                                calculate_confidence_tolerant(event, ref, ln_sim, fn_sim),
                                detect_issues(event, ref, "FUZZY", ln_sim, fn_sim)),
                            confidence)
             ELSE FuzzyLoop(event, refs, lastname_threshold, firstname_threshold,
                            k + 1, best_result, best_confidence)

try_fuzzy_match(event, refs, lastname_threshold, firstname_threshold) ==
    FuzzyLoop(event, refs, lastname_threshold, firstname_threshold, 1, None, -10000)

-----------------------------------------------------------------------------
(* The inputs of match_players                                             *)

MaxRefs == 2

MaxEvents == 2

MEIER == <<"M", "E", "I", "E", "R">>

MEYER == <<"M", "E", "Y", "E", "R">>

Hans == <<"H", "a", "n", "s">>

Hanz == <<"H", "a", "n", "z">>

GER == <<"G", "E", "R">>

FRA == <<"F", "R", "A">>

\* Reference records: two with one key and a transposed date, one with the
\* same key written differently and other fields off, one with the names
\* swapped and another day of birth, one a fuzzy neighbour.
RefPool ==
    { Player("R1", MEIER, Hans, <<"M">>, GER, 15, 6, 1985),
      Player("R2", MEIER, Hans, <<"M">>, GER, 6, 15, 1985),
      Player("R3", <<" ", "m", "e", "i", "e", "r">>, <<"H", "A", "N", "S">>,
             <<"F">>, <<"f", "r", "a">>, 15, 7, 1986),
      Player("R4", Hans, MEIER, <<"m">>, GER, 16, 6, 1985),
      Player("R5", MEYER, Hans, <<"M">>, GER, 15, 6, 1985) }

\* Event records: the key of R1..R3, the key of R4, a fuzzy neighbour of
\* both axes, and one that shares only the last name
EventPool ==
    { Player("E1", MEIER, Hans, <<"M">>, GER, 15, 6, 1985),
      Player("E3", Hans, <<"M", "e", "i", "e", "r">>, <<"M">>, GER, 15, 6, 1985),
      Player("E4", <<"M", "e", "y", "e", "r", " ">>, Hanz, <<"m">>, FRA, 15, 6, 1985),
      Player("E5", MEIER, <<>>, <<"M">>, GER, 0, 0, 0) }

Thresholds == {DEFAULT_LASTNAME_THRESHOLD, <<9, 10>>}

SeqsUpTo(S, n) == UNION {[1..k -> S] : k \in 0..n}

\* the sequences without a repeated element
DistinctSeqsUpTo(S, n) ==
    {s \in SeqsUpTo(S, n) : \A i, j \in DOMAIN s : i # j => s[i] # s[j]}

\* args and ret while match_players runs
NoCall == [fn |-> "none"]

Init ==
    /\ ref_players \in DistinctSeqsUpTo(RefPool, MaxRefs)
    /\ event_players \in DistinctSeqsUpTo(EventPool, MaxEvents)
    /\ fuzzy_threshold \in Thresholds
    /\ name_index = <<>>
    /\ swap_index = <<>>
    /\ results = <<>>
    /\ idx = 1
    /\ pc = "build"
    /\ args = NoCall
    /\ ret = NoCall

-----------------------------------------------------------------------------
(* match_players, one action per step                                      *)

\* faulty variant of LoopHead: the loop stops one record early
LoopHead_short(i) == IF i < Len(event_players) THEN "exact" ELSE "return"

\* the head of "for event in event_players" with the loop at position i
LoopHead(i) == IF i <= Len(event_players) THEN "exact" ELSE "return"

event_key == NameKey(event_players[idx])

\* results.append(result); continue.  A None out of _pick_best_candidate is
\* its failed assert.
AppendAndContinue(result) ==
    IF result = None
    THEN /\ pc' = "AssertionError"
         /\ UNCHANGED <<results, idx>>
    ELSE /\ results' = Append(results, result)
         /\ idx' = idx + 1
         /\ pc' = LoopHead(idx + 1)

\* lines 148-154
BuildIndexes ==
    /\ pc = "build"
    /\ name_index' = build_name_index(ref_players)
    /\ swap_index' = build_swap_index(ref_players)
    /\ pc' = LoopHead(idx)
    /\ UNCHANGED <<ref_players, event_players, fuzzy_threshold, results, idx,
                   args, ret>>

\* faulty variant of Stage1Exact: the lookup goes to the swap index
Stage1Exact_swap_index ==
    /\ pc = "exact"
    /\ LET exact_candidates == dict_get(swap_index, event_key)
       IN  IF exact_candidates # <<>>
           THEN AppendAndContinue(
                    pick_best_candidate(event_players[idx], exact_candidates,
                                        "EXACT", RatOne, RatOne))
           ELSE /\ pc' = "swap"
                /\ UNCHANGED <<results, idx>>
    /\ UNCHANGED <<ref_players, event_players, fuzzy_threshold, name_index,
                   swap_index, args, ret>>

\* lines 157-164
Stage1Exact ==
    /\ pc = "exact"
    /\ LET exact_candidates == dict_get(name_index, event_key)
       IN  IF exact_candidates # <<>>
           THEN AppendAndContinue(
                    pick_best_candidate(event_players[idx], exact_candidates,
                                        "EXACT", RatOne, RatOne))
           ELSE /\ pc' = "swap"
                /\ UNCHANGED <<results, idx>>
    /\ UNCHANGED <<ref_players, event_players, fuzzy_threshold, name_index,
                   swap_index, args, ret>>

\* faulty variant of Stage2Swap: a swap hit takes its reference out of the
\* name index, so that a later record no longer finds it
Stage2Swap_consuming ==
    /\ pc = "swap"
    /\ LET swap_candidates == dict_get(swap_index, event_key)
       IN  IF swap_candidates # <<>>
           THEN /\ AppendAndContinue(
                       pick_best_candidate(event_players[idx], swap_candidates,
                                           "NAME_SWAP", RatOne, RatOne))
                /\ name_index' = [k \in DOMAIN name_index \ {NameKey(swap_candidates[1])}
                                    |-> name_index[k]]
           ELSE /\ pc' = "fuzzy"
                /\ UNCHANGED <<results, idx, name_index>>
    /\ UNCHANGED <<ref_players, event_players, fuzzy_threshold,
                   swap_index, args, ret>>

\* lines 166-171
Stage2Swap ==
    /\ pc = "swap"
    /\ LET swap_candidates == dict_get(swap_index, event_key)
       IN  IF swap_candidates # <<>>
           THEN AppendAndContinue(
                    pick_best_candidate(event_players[idx], swap_candidates,
                                        "NAME_SWAP", RatOne, RatOne))
           ELSE /\ pc' = "fuzzy"
                /\ UNCHANGED <<results, idx>>
    /\ UNCHANGED <<ref_players, event_players, fuzzy_threshold, name_index,
                   swap_index, args, ret>>

\* faulty variant of Stage3Fuzzy: fuzzy_threshold is used for both names
Stage3Fuzzy_one_threshold ==
    /\ pc = "fuzzy"
    /\ LET fuzzy_result == try_fuzzy_match(event_players[idx], ref_players,
                               fuzzy_threshold, fuzzy_threshold)
       IN  IF fuzzy_result # None
           THEN /\ results' = Append(results, fuzzy_result)
                /\ idx' = idx + 1
                /\ pc' = LoopHead(idx + 1)
           ELSE /\ pc' = "none"
                /\ UNCHANGED <<results, idx>>
    /\ UNCHANGED <<ref_players, event_players, fuzzy_threshold, name_index,
                   swap_index, args, ret>>

\* lines 173-179
Stage3Fuzzy ==
    /\ pc = "fuzzy"
    /\ LET fuzzy_result == try_fuzzy_match(event_players[idx], ref_players,
                               fuzzy_threshold, DEFAULT_FIRSTNAME_THRESHOLD)
       IN  IF fuzzy_result # None
           THEN /\ results' = Append(results, fuzzy_result)
                /\ idx' = idx + 1
                /\ pc' = LoopHead(idx + 1)
           ELSE /\ pc' = "none"
                /\ UNCHANGED <<results, idx>>
    /\ UNCHANGED <<ref_players, event_players, fuzzy_threshold, name_index,
                   swap_index, args, ret>>

\* faulty variant of Stage4None: the unmatched record keeps a name score
Stage4None_scored ==
    /\ pc = "none"
    /\ results' = Append(results,
                         MatchResult(event_players[idx], None, "NONE", 5500, 5500,
                                     <<"NO_MATCH">>))
    /\ idx' = idx + 1
    /\ pc' = LoopHead(idx + 1)
    /\ UNCHANGED <<ref_players, event_players, fuzzy_threshold, name_index,
                   swap_index, args, ret>>

\* faulty variant of Stage4None: the issues are left at the default empty list
Stage4None_no_issue ==
    /\ pc = "none"
    /\ results' = Append(results,
                         MatchResult(event_players[idx], None, "NONE", 0, 0, <<>>))
    /\ idx' = idx + 1
    /\ pc' = LoopHead(idx + 1)
    /\ UNCHANGED <<ref_players, event_players, fuzzy_threshold, name_index,
                   swap_index, args, ret>>

\* lines 181-188; confidence_tolerant keeps its default 0.0
Stage4None ==
    /\ pc = "none"
    /\ results' = Append(results,
                         MatchResult(event_players[idx], None, "NONE", 0, 0,
                                     <<"NO_MATCH">>))
    /\ idx' = idx + 1
    /\ pc' = LoopHead(idx + 1)
    /\ UNCHANGED <<ref_players, event_players, fuzzy_threshold, name_index,
                   swap_index, args, ret>>

\* lines 190-194: return results
Return ==
    /\ pc = "return"
    /\ pc' = "done"
    /\ UNCHANGED <<ref_players, event_players, fuzzy_threshold, name_index,
                   swap_index, results, idx, args, ret>>

Next ==
    \/ BuildIndexes
    \/ Stage1Exact
    \/ Stage2Swap
    \/ Stage3Fuzzy
    \/ Stage4None
    \/ Return

Spec == Init /\ [][Next]_vars

-----------------------------------------------------------------------------
(* The scoring functions called directly, as the unit tests call them:     *)
(* Init draws the two records, an action draws the remaining arguments and *)
(* applies one function.                                                   *)

EventDays == {0, 5, 6}

RefDays == {0, 5}

ScoreEvents ==
    { Player("E", MEIER, Hans, sx, assoc, d, m, y) :
        sx \in {<<"M">>, <<"m">>, <<"F">>},
        assoc \in {GER, <<"g", "e", "r">>, FRA},
        d \in EventDays, m \in EventDays, y \in {1985, 1986} }

ScoreRefs ==
    { Player("R", MEIER, Hans, sx, assoc, d, m, 1985) :
        sx \in {<<"M">>, <<"f">>},
        assoc \in {GER, <<"f", "r", "a">>},
        d \in RefDays, m \in RefDays }

\* similarities passed in: 0.0, 0.85, 0.9999, 1.0
SimVals == {RatZero, <<17, 20>>, <<9999, 10000>>, RatOne}

MatchTypes == {"EXACT", "NAME_SWAP", "FUZZY"}

InitScore ==
    /\ args \in [event : ScoreEvents, ref : ScoreRefs]
    /\ ret = NoCall
    /\ ref_players = <<>>
    /\ event_players = <<>>
    /\ fuzzy_threshold = DEFAULT_LASTNAME_THRESHOLD
    /\ name_index = <<>>
    /\ swap_index = <<>>
    /\ results = <<>>
    /\ idx = 1
    /\ pc = "idle"

CallIsDobMobSwapped ==
    /\ pc = "idle"
    /\ ret = NoCall
    /\ ret' = [fn |-> "is_dob_mob_swapped",
               value |-> is_dob_mob_swapped(args.event, args.ref)]
    /\ UNCHANGED <<args, matchVars>>

CallCalculateConfidence ==
    /\ pc = "idle"
    /\ ret = NoCall
    /\ \E ls \in SimVals, fs \in SimVals :
          ret' = [fn |-> "calculate_confidence",
                  lastname_sim |-> ls, firstname_sim |-> fs,
                  value |-> calculate_confidence(args.event, args.ref, ls, fs)]
    /\ UNCHANGED <<args, matchVars>>

CallDetectIssues ==
    /\ pc = "idle"
    /\ ret = NoCall
    /\ \E mt \in MatchTypes, ls \in SimVals, fs \in SimVals :
          ret' = [fn |-> "detect_issues", match_type |-> mt,
                  lastname_sim |-> ls, firstname_sim |-> fs,
                  value |-> detect_issues(args.event, args.ref, mt, ls, fs)]
    /\ UNCHANGED <<args, matchVars>>

NextScore ==
    \/ CallIsDobMobSwapped
    \/ CallCalculateConfidence
    \/ CallDetectIssues

SpecScore == InitScore /\ [][NextScore]_vars

\* both ways of using the program: a run of match_players, or one direct
\* call of a scoring function
SpecAll == (Init \/ InitScore) /\ [][Next \/ NextScore]_vars

-----------------------------------------------------------------------------
(* Vocabulary of the properties                                            *)
(* The two confidence functions called directly on records whose names     *)
(* differ by diacritics, case and punctuation, as the unit tests of the    *)
(* tolerant score call them.                                               *)

Mueller == <<"M", "u_uml", "l", "l", "e", "r">>
MULLER == <<"M", "U", "L", "L", "E", "R">>
Mul_ler == <<"M", "u", "l", "-", "l", "e", "r">>
Rene_acute == <<"R", "e", "n", "e_acute">>
Rene == <<"R", "e", "n", "e">>
R_Ene == <<"R", ".", " ", "E", "n", "e">>

TolEvents ==
    { Player("E", ln, fn, sx, GER, d, m, 1985) :
        ln \in {Mueller, Mul_ler, MEIER, <<>>},
        fn \in {Rene_acute, R_Ene, Hans},
        sx \in {<<"M">>, <<"F">>},
        d \in {5, 6}, m \in {5, 6} }

TolRefs ==
    { Player("R", ln, fn, <<"M">>, GER, 5, 6, 1985) :
        ln \in {MULLER, Mueller, MEYER},
        fn \in {Rene, Rene_acute, Hanz} }

InitTol ==
    /\ args \in [event : TolEvents, ref : TolRefs]
    /\ ret = NoCall
    /\ ref_players = <<>>
    /\ event_players = <<>>
    /\ fuzzy_threshold = DEFAULT_LASTNAME_THRESHOLD
    /\ name_index = <<>>
    /\ swap_index = <<>>
    /\ results = <<>>
    /\ idx = 1
    /\ pc = "idle"

CallCalculateConfidenceTolerant ==
    /\ pc = "idle"
    /\ ret = NoCall
    /\ \E ls \in SimVals, fs \in SimVals :
          ret' = [fn |-> "calculate_confidence_tolerant",
                  lastname_sim |-> ls, firstname_sim |-> fs,
                  value |-> calculate_confidence_tolerant(args.event, args.ref, ls, fs)]
    /\ UNCHANGED <<args, matchVars>>

NextTol ==
    \/ CallCalculateConfidenceTolerant
    \/ CallCalculateConfidence

SpecTol == InitTol /\ [][NextTol]_vars

\* a run of match_players, or one direct call of a confidence function
SpecTolAll == (Init \/ InitTol) /\ [][Next \/ NextTol]_vars

-----------------------------------------------------------------------------
(* normalize_for_tolerant_comparison called on a string and then on its    *)
(* own result.                                                             *)

MaxText == 3

\* letters of both cases, a precomposed letter, U+00DF, two of the removed
\* characters, a nonspacing mark of combining class 0 and two spacing marks
\* of different non-zero combining classes
NormAlphabet ==
    {"a", "E", "e_acute", "sz", "-", " ", "candrabindu", "stem", "aug_dot"}

AsciiChars == {"a", "E", "-", " "}

InitNorm ==
    /\ args \in [text : SeqsUpTo(NormAlphabet, MaxText)]
    /\ ret = NoCall
    /\ ref_players = <<>>
    /\ event_players = <<>>
    /\ fuzzy_threshold = DEFAULT_LASTNAME_THRESHOLD
    /\ name_index = <<>>
    /\ swap_index = <<>>
    /\ results = <<>>
    /\ idx = 1
    /\ pc = "idle"

CallNormalizeForTolerantComparison ==
    /\ pc = "idle"
    /\ ret = NoCall
    /\ ret' = [fn |-> "normalize_for_tolerant_comparison", again |-> FALSE,
               value |-> normalize_for_tolerant_comparison(args.text)]
    /\ UNCHANGED <<args, matchVars>>

\* the function applied to what it returned
CallNormalizeAgain ==
    /\ pc = "idle"
    /\ ret.fn = "normalize_for_tolerant_comparison"
    /\ ~ret.again
    /\ args' = [text |-> ret.value]
    /\ ret' = [fn |-> "normalize_for_tolerant_comparison", again |-> TRUE,
               value |-> normalize_for_tolerant_comparison(ret.value)]
    /\ UNCHANGED matchVars

NextNorm ==
    \/ CallNormalizeForTolerantComparison
    \/ CallNormalizeAgain

SpecNorm == InitNorm /\ [][NextNorm]_vars

-----------------------------------------------------------------------------
(* core/reader.py: read_players as a function of the text of the file, as  *)
(* csv.DictReader presents it: the field names of the header line (None    *)
(* for a file without one) and the rows, each a list of fields.  A field   *)
(* is a sequence of characters; in a column name a word of several letters *)
(* stands for that run of non-whitespace characters.                       *)

\* the characters the pattern \s matches, U+2006 among them
ReaderWhitespace == {" ", "u2006"}

\* _WHITESPACE_RE.sub(' ', value): every run of whitespace becomes one space
RECURSIVE collapse_whitespace(_)
collapse_whitespace(s) ==
    IF s = <<>> THEN <<>>
    ELSE IF Head(s) \in ReaderWhitespace
         THEN IF Len(s) > 1 /\ s[2] \in ReaderWhitespace
              THEN collapse_whitespace(Tail(s))
              ELSE <<" ">> \o collapse_whitespace(Tail(s))
         ELSE <<Head(s)>> \o collapse_whitespace(Tail(s))

\* reader.py normalize_whitespace, for a string
normalize_whitespace(value) == strip(collapse_whitespace(value))

DigitChars == <<"0", "1", "2", "3", "4", "5", "6", "7", "8", "9">>

DigitValue(c) == (CHOOSE k \in DOMAIN DigitChars : DigitChars[k] = c) - 1

\* int(text) for a text without sign: the value, or ValueError
RECURSIVE int_digits(_, _)
int_digits(s, acc) ==
    IF s = <<>> THEN acc ELSE int_digits(Tail(s), 10 * acc + DigitValue(Head(s)))

int(text) ==
    LET t == strip(text)
    IN  IF t # <<>> /\ \A k \in DOMAIN t : (\E d \in DOMAIN DigitChars : DigitChars[d] = t[k])
        THEN [raised |-> "none", value |-> int_digits(t, 0)]
        ELSE [raised |-> "ValueError"]

ExternID == <<"Extern", " ", "ID">>
LastName == <<"Last", " ", "Name">>
FirstName == <<"First", " ", "Name">>
SexCol == <<"Sex">>
AssociationCol == <<"Association">>
DoB == <<"DoB">>
MoB == <<"MoB">>
YoB == <<"YoB">>

\* lines 75-76
required_cols == {ExternID, LastName, FirstName, SexCol, AssociationCol, DoB, MoB, YoB}

\* csv.DictReader: the value of a row under each field name; a row shorter
\* than the header has None (restval) for the names it does not reach, the
\* fields beyond the header go under the key None, which line 90 drops; of
\* two columns with one name the later wins
row_value(fieldnames, row, col) ==
    LET K == {k \in DOMAIN fieldnames : normalize_whitespace(fieldnames[k]) = col}
        k == CHOOSE x \in K : \A y \in K : y <= x
    IN  IF k \in DOMAIN row THEN row[k] ELSE None

\* lines 89-90: a None among the values makes normalize_whitespace raise
\* TypeError
cleaning_raises(fieldnames, row) == Len(row) < Len(fieldnames)

\* cleaned.get(col, '') after lines 89-90
cleaned_get(fieldnames, row, col) ==
    IF \E k \in DOMAIN fieldnames : normalize_whitespace(fieldnames[k]) = col
    THEN normalize_whitespace(row_value(fieldnames, row, col))
    ELSE <<>>

\* int(cleaned[col]) if cleaned.get(col) else 0
date_field(fieldnames, row, col) ==
    LET v == cleaned_get(fieldnames, row, col)
    IN  IF v # <<>> THEN int(v) ELSE [raised |-> "none", value |-> 0]

\* lines 91-104: the Player of a row, or the ValueError that skips the row
read_row(fieldnames, row) ==
    LET dob == date_field(fieldnames, row, DoB)
        mob == date_field(fieldnames, row, MoB)
        yob == date_field(fieldnames, row, YoB)
    IN  IF "ValueError" \in {dob.raised, mob.raised, yob.raised}
        THEN [raised |-> "ValueError"]
        ELSE [raised |-> "none",
              player |-> Player(cleaned_get(fieldnames, row, ExternID),
                                cleaned_get(fieldnames, row, LastName),
                                cleaned_get(fieldnames, row, FirstName),
                                cleaned_get(fieldnames, row, SexCol),
                                cleaned_get(fieldnames, row, AssociationCol),
                                dob.value, mob.value, yob.value)]

\* lines 86-104, from row k on: the outcome of the loop.  csv.DictReader
\* passes over a row without any field (a blank line)
RECURSIVE read_rows(_, _, _, _)
read_rows(fieldnames, rows, k, players) ==
    IF k > Len(rows) THEN [raised |-> "none", players |-> players]
    ELSE IF rows[k] = <<>> THEN read_rows(fieldnames, rows, k + 1, players)
    ELSE IF cleaning_raises(fieldnames, rows[k])
         THEN [raised |-> "TypeError", players |-> <<>>]
    ELSE LET out == read_row(fieldnames, rows[k])
         IN  read_rows(fieldnames, rows, k + 1,
                       IF out.raised = "ValueError" THEN players
                       ELSE Append(players, out.player))

\* lines 73-107
read_players(fieldnames, rows) ==
    IF fieldnames = None
    THEN [raised |-> "ValueError", players |-> <<>>]
    ELSE LET actual_cols == {normalize_whitespace(fieldnames[k]) : k \in DOMAIN fieldnames}
             missing == required_cols \ actual_cols
         IN  IF missing # {}
             THEN [raised |-> "ValueError", players |-> <<>>]
             ELSE read_rows(fieldnames, rows, 1, <<>>)

MaxRows == 3

FullHeader == <<ExternID, LastName, FirstName, SexCol, AssociationCol, DoB, MoB, YoB>>

\* no header line, the eight columns, the eight with whitespace around and
\* inside the names, the header without YoB, a blank header line
HeaderPool ==
    { None,
      FullHeader,
      <<ExternID, <<"Last", " ", "u2006", "Name">>, FirstName, SexCol,
        AssociationCol, <<" ", "DoB">>, MoB, <<"YoB", " ">>>>,
      <<ExternID, LastName, FirstName, SexCol, AssociationCol, DoB, MoB>>,
      <<>> }

RowGood == <<<<"1">>, MEIER, Hans, <<"M">>, GER, <<"1", "5">>, <<"6">>, <<"1", "9", "8", "5">>>>
RowNoDate == <<<<"2">>, MEYER, Hanz, <<"F">>, FRA, <<>>, <<" ">>, <<>>>>
RowBadDay == <<<<"3">>, MEIER, Hans, <<"M">>, GER, <<"x">>, <<"6">>, <<"1", "9", "8", "5">>>>
RowShort == <<<<"4">>, MEIER, Hans>>
RowLong == <<<<"5">>, MEIER, Hanz, <<"M">>, GER, <<" ", "7">>, <<"6">>, <<"1", "9", "8", "5">>, <<"x">>>>
RowBlank == <<>>

RowPool == {RowGood, RowNoDate, RowBadDay, RowShort, RowLong, RowBlank}

InitRead ==
    /\ args \in [fieldnames : HeaderPool, rows : SeqsUpTo(RowPool, MaxRows)]
    /\ ret = NoCall
    /\ ref_players = <<>>
    /\ event_players = <<>>
    /\ fuzzy_threshold = DEFAULT_LASTNAME_THRESHOLD
    /\ name_index = <<>>
    /\ swap_index = <<>>
    /\ results = <<>>
    /\ idx = 1
    /\ pc = "idle"

CallReadPlayers ==
    /\ pc = "idle"
    /\ ret = NoCall
    /\ LET out == read_players(args.fieldnames, args.rows)
       IN  ret' = [fn |-> "read_players", raised |-> out.raised,
                   value |-> out.players]
    /\ UNCHANGED <<args, matchVars>>

NextRead == CallReadPlayers

SpecRead == InitRead /\ [][NextRead]_vars

-----------------------------------------------------------------------------

Range(f) == {f[x] : x \in DOMAIN f}

\* the event record and the result at position i of a run
EventAt(i) == event_players[i]

\* some reference has the event's normalized (last, first) key
HasExactKey(e) ==
    \E j \in DOMAIN ref_players :
        /\ normalize_key(ref_players[j].last_name) = normalize_key(e.last_name)
        /\ normalize_key(ref_players[j].first_name) = normalize_key(e.first_name)

\* some reference's normalized (first, last) is the event's (last, first)
HasSwapKey(e) ==
    \E j \in DOMAIN ref_players :
        /\ normalize_key(ref_players[j].first_name) = normalize_key(e.last_name)
        /\ normalize_key(ref_players[j].last_name) = normalize_key(e.first_name)

LastSim(e, r) ==
    JaroWinklerSimilarity(normalize_key(e.last_name), normalize_key(r.last_name))

FirstSim(e, r) ==
    JaroWinklerSimilarity(normalize_key(e.first_name), normalize_key(r.first_name))

\* the reference passes both thresholds: last name fuzzy_threshold, first
\* name 0.80
PassesBoth(e, r) ==
    /\ RatGeq(LastSim(e, r), fuzzy_threshold)
    /\ RatGeq(FirstSim(e, r), <<4, 5>>)

HasFuzzy(e) == \E j \in DOMAIN ref_players : PassesBoth(e, ref_players[j])

\* the stage that is final for an event record
ExpectedType(e) ==
    IF HasExactKey(e) THEN "EXACT"
    ELSE IF HasSwapKey(e) THEN "NAME_SWAP"
    ELSE IF HasFuzzy(e) THEN "FUZZY"
    ELSE "NONE"

\* the positions in the reference list of a stage's candidates
Candidates(e, mt) ==
    {j \in DOMAIN ref_players :
        CASE mt = "EXACT" ->
                 /\ normalize_key(ref_players[j].last_name) = normalize_key(e.last_name)
                 /\ normalize_key(ref_players[j].first_name) = normalize_key(e.first_name)
          [] mt = "NAME_SWAP" ->
                 /\ normalize_key(ref_players[j].first_name) = normalize_key(e.last_name)
                 /\ normalize_key(ref_players[j].last_name) = normalize_key(e.first_name)
          [] mt = "FUZZY" -> PassesBoth(e, ref_players[j])
          [] OTHER -> FALSE}

\* the rounded confidence of a stage's candidate: similarities 1.0 in the
\* exact and swap stages, the candidate's own in the fuzzy stage
CandidateConfidence(e, r, mt) ==
    IF mt = "FUZZY"
    THEN calculate_confidence(e, r, LastSim(e, r), FirstSim(e, r))
    ELSE calculate_confidence(e, r, RatOne, RatOne)

-----------------------------------------------------------------------------
(* C1: match_players returns exactly one result per event record, in input *)
(* order: on return the result list is as long as the event list and the   *)
(* i-th result carries the i-th event record; while the loop runs the      *)
(* results are those of the records already passed.                        *)
C1_OneResultPerEventInOrder ==
    /\ pc \in {"exact", "swap", "fuzzy", "none", "return", "done"} =>
          /\ Len(results) = idx - 1
          /\ \A i \in DOMAIN results : results[i].event_player = event_players[i]
    /\ pc \in {"return", "done"} => Len(results) = Len(event_players)

C1_Witness ==
    /\ pc = "done"
    /\ Len(event_players) = 2
    /\ event_players[1] # event_players[2]
    /\ Len(results) = 2
    /\ results[2].event_player = event_players[2]

(* C2: the stages are tried in order and the first that yields is final:   *)
(* a result is EXACT iff a reference has the event's key, NAME_SWAP iff    *)
(* none has and a reference's (first, last) is the event's (last, first),  *)
(* FUZZY iff neither and some reference passes both thresholds, NONE       *)
(* otherwise.                                                              *)
C2_FirstStageThatYieldsIsFinal ==
    \A i \in DOMAIN results : results[i].match_type = ExpectedType(EventAt(i))

\* an exact hit kept although a swap or fuzzy candidate of the same run
\* would score higher
C2_Witness ==
    \E i \in DOMAIN results :
        /\ results[i].match_type = "EXACT"
        /\ \E j \in DOMAIN ref_players :
              /\ j \in Candidates(EventAt(i), "NAME_SWAP") \cup Candidates(EventAt(i), "FUZZY")
              /\ \/ CandidateConfidence(EventAt(i), ref_players[j], "NAME_SWAP")
                        > results[i].confidence
                 \/ CandidateConfidence(EventAt(i), ref_players[j], "FUZZY")
                        > results[i].confidence

(* C3: in every stage the reference of the result is the candidate with    *)
(* the highest rounded confidence, and among candidates with that          *)
(* confidence the earliest in the reference list.                          *)
C3_BestCandidateEarliestOnTie ==
    \A i \in DOMAIN results :
        LET e == EventAt(i)
            mt == results[i].match_type
            cands == Candidates(e, mt)
            conf == [k \in cands |-> CandidateConfidence(e, ref_players[k], mt)]
        IN  mt # "NONE" =>
                \E j \in cands :
                    /\ results[i].ref_player = ref_players[j]
                    /\ results[i].confidence = conf[j]
                    /\ \A k \in cands :
                          /\ conf[k] <= results[i].confidence
                          /\ conf[k] = results[i].confidence => j <= k

\* two candidates tie at the top and the first of the list is returned
C3_Witness ==
    \E i \in DOMAIN results :
        /\ results[i].match_type = "FUZZY"
        /\ results[i].ref_player = ref_players[1]
        /\ 2 \in Candidates(EventAt(i), "FUZZY")
        /\ CandidateConfidence(EventAt(i), ref_players[2], "FUZZY") = results[i].confidence

(* C4: for every result: match_type is NONE iff ref_player is absent iff   *)
(* issues is exactly [NO_MATCH]; every other result has a reference record *)
(* of the reference list and no NO_MATCH.                                  *)
C4_NoneIffNoRefIffNoMatch ==
    \A i \in DOMAIN results :
        LET r == results[i]
        IN  /\ (r.match_type = "NONE") <=> (r.ref_player = None)
            /\ (r.match_type = "NONE") <=> (r.issues = <<"NO_MATCH">>)
            /\ r.match_type # "NONE" =>
                   /\ r.ref_player \in Range(ref_players)
                   /\ "NO_MATCH" \notin Range(r.issues)

C4_Witness ==
    /\ Len(results) = 2
    /\ results[1].match_type = "FUZZY"
    /\ results[1].ref_player \in Range(ref_players)
    /\ results[2].match_type = "NONE"
    /\ results[2].ref_player = None
    /\ results[2].issues = <<"NO_MATCH">>

-----------------------------------------------------------------------------
(* Vocabulary of the scoring properties                                    *)

\* day and month of the event are those of the reference exchanged, the
\* years agree and day and month differ
Transposed(e, r) ==
    e.dob = r.mob /\ e.mob = r.dob /\ e.yob = r.yob /\ e.dob # e.mob

DayOk(e, r) == e.dob = r.dob \/ Transposed(e, r)

MonthOk(e, r) == e.mob = r.mob \/ Transposed(e, r)

YearOk(e, r) == e.yob = r.yob

SexOk(e, r) == upper(e.sex) = upper(r.sex)

AffiliationOk(e, r) == upper(e.association) = upper(r.association)

\* all five non-name components are maximal
FieldsMaximal(e, r) ==
    DayOk(e, r) /\ MonthOk(e, r) /\ YearOk(e, r) /\ SexOk(e, r) /\ AffiliationOk(e, r)

Bracket(b) == IF b THEN 1 ELSE 0

\* 0.30*lastSim + 0.25*firstSim + 0.10*[..] + 0.10*[..] + 0.15*[..] + 0.05*[..]
\* + 0.05*[..], in hundredths, as a rational
ExactScore(e, r, ls, fs) ==
    RatAdd(RatScale(30, ls),
           RatAdd(RatScale(25, fs),
                  <<  10 * Bracket(DayOk(e, r)) + 10 * Bracket(MonthOk(e, r))
                    + 15 * Bracket(YearOk(e, r)) + 5 * Bracket(SexOk(e, r))
                    + 5 * Bracket(AffiliationOk(e, r)), 1>>))

\* v ten-thousandths is a nearest ten-thousandth to q hundredths
IsRounded4(v, q) ==
    LET diff == v * q[2] - 100 * q[1]
    IN  2 * (IF diff < 0 THEN -diff ELSE diff) <= q[2]

\* what the two names lose against 1.0: 0.30*(1 - lastSim) + 0.25*(1 - firstSim),
\* in hundredths
NameLoss(ls, fs) ==
    RatAdd(RatScale(30, <<ls[2] - ls[1], ls[2]>>), RatScale(25, <<fs[2] - fs[1], fs[2]>>))

\* the similarities a result was scored with
ResultLastSim(i) ==
    IF results[i].match_type = "FUZZY"
    THEN LastSim(EventAt(i), results[i].ref_player) ELSE RatOne

ResultFirstSim(i) ==
    IF results[i].match_type = "FUZZY"
    THEN FirstSim(EventAt(i), results[i].ref_player) ELSE RatOne

\* the results that have a reference record
Matched == {i \in DOMAIN results : results[i].match_type # "NONE"}

IssueWeight(code) ==
    CASE code = "DOB_MISMATCH"   -> 1000
      [] code = "MOB_MISMATCH"   -> 1000
      [] code = "YOB_MISMATCH"   -> 1500
      [] code = "SEX_MISMATCH"   -> 500
      [] code = "ASSOC_MISMATCH" -> 500
      [] OTHER                   -> 0

RECURSIVE IssueWeights(_)
IssueWeights(iss) ==
    IF iss = <<>> THEN 0 ELSE IssueWeight(Head(iss)) + IssueWeights(Tail(iss))

\* a list of issue codes agrees with the dates of the two records
SwapCodeConsistent(iss, e, r) ==
    /\ ~(/\ "DOB_MOB_SWAPPED" \in Range(iss)
         /\ \/ "DOB_MISMATCH" \in Range(iss)
            \/ "MOB_MISMATCH" \in Range(iss))
    /\ Transposed(e, r) =>
          /\ "DOB_MOB_SWAPPED" \in Range(iss)
          /\ "DOB_MISMATCH" \notin Range(iss)
          /\ "MOB_MISMATCH" \notin Range(iss)

-----------------------------------------------------------------------------
(* C5: calculate_confidence is the weighted sum 0.30*lastSim +             *)
(* 0.25*firstSim + 0.10*[day] + 0.10*[month] + 0.15*[year] + 0.05*[sex] +  *)
(* 0.05*[affiliation] rounded to 4 decimals, a date value of 0 compared    *)
(* like any other.                                                         *)
C5_ConfidenceIsRoundedWeightedSum ==
    ret.fn = "calculate_confidence" =>
        IsRounded4(ret.value,
                   ExactScore(args.event, args.ref, ret.lastname_sim, ret.firstname_sim))

C5_Witness ==
    /\ ret.fn = "calculate_confidence"
    /\ ret.lastname_sim = <<17, 20>>
    /\ ret.firstname_sim = <<9999, 10000>>
    /\ args.event.dob = 0
    /\ Transposed(args.event, args.ref)
    /\ ~SexOk(args.event, args.ref)
    /\ AffiliationOk(args.event, args.ref)
    /\ ret.value = 9050

(* C6 as stated: a confidence of exactly 1.0 only when all seven           *)
(* components are maximal, lastSim = firstSim = 1.0 included, for          *)
(* calculate_confidence on any similarities and for every result.          *)
C6_OneOnlyIfAllSevenMaximal ==
    /\ (ret.fn = "calculate_confidence" /\ ret.value = 10000) =>
          /\ ret.lastname_sim = RatOne
          /\ ret.firstname_sim = RatOne
          /\ FieldsMaximal(args.event, args.ref)
    /\ \A i \in Matched :
          results[i].confidence = 10000 =>
              /\ RatEq(ResultLastSim(i), RatOne)
              /\ RatEq(ResultFirstSim(i), RatOne)
              /\ FieldsMaximal(EventAt(i), results[i].ref_player)

(* C6 as amended: a confidence of exactly 1.0 only when the five non-name  *)
(* components are maximal and the names lose at most half a                *)
(* ten-thousandth, 0.30*(1 - lastSim) + 0.25*(1 - firstSim) <= 0.00005,    *)
(* which the rounding to 4 decimals hides.                                 *)
C6_OneOnlyIfFieldsMaximalAndNamesRoundToOne ==
    /\ (ret.fn = "calculate_confidence" /\ ret.value = 10000) =>
          /\ FieldsMaximal(args.event, args.ref)
          /\ ~RatLess(<<1, 200>>, NameLoss(ret.lastname_sim, ret.firstname_sim))
    /\ \A i \in Matched :
          results[i].confidence = 10000 =>
              /\ FieldsMaximal(EventAt(i), results[i].ref_player)
              /\ ~RatLess(<<1, 200>>, NameLoss(ResultLastSim(i), ResultFirstSim(i)))

\* 0.30*0.9999 + 0.25 + 0.45 = 0.99997 is returned as 1.0
C6_Witness ==
    /\ ret.fn = "calculate_confidence"
    /\ ret.lastname_sim = <<9999, 10000>>
    /\ ret.firstname_sim = RatOne
    /\ ret.value = 10000

(* C7: calculate_confidence(e, r, 1.0, 1.0) is exactly 1.0 whenever year,  *)
(* sex and affiliation agree (ignoring case) and day and month are both    *)
(* equal or transposed.                                                    *)
C7_FullScoreWhenFieldsAgree ==
    ( /\ ret.fn = "calculate_confidence"
      /\ ret.lastname_sim = RatOne
      /\ ret.firstname_sim = RatOne
      /\ YearOk(args.event, args.ref)
      /\ SexOk(args.event, args.ref)
      /\ AffiliationOk(args.event, args.ref)
      /\ \/ args.event.dob = args.ref.dob /\ args.event.mob = args.ref.mob
         \/ Transposed(args.event, args.ref) )
    => ret.value = 10000

\* a transposed date, sex and affiliation in another case
C7_Witness ==
    /\ ret.fn = "calculate_confidence"
    /\ ret.lastname_sim = RatOne
    /\ ret.firstname_sim = RatOne
    /\ Transposed(args.event, args.ref)
    /\ args.event.sex # args.ref.sex
    /\ args.event.association # args.ref.association
    /\ ret.value = 10000

(* C8: for every EXACT and NAME_SWAP result the confidence is 1.0 minus    *)
(* the weights of the mismatch codes among its issues (DOB 0.10, MOB 0.10, *)
(* YOB 0.15, SEX 0.05, ASSOC 0.05; NAME_SWAPPED and DOB_MOB_SWAPPED 0).    *)
C8_ConfidenceIsOneMinusIssueWeights ==
    \A i \in DOMAIN results :
        results[i].match_type \in {"EXACT", "NAME_SWAP"} =>
            results[i].confidence = 10000 - IssueWeights(results[i].issues)

\* a lone day mismatch gives 0.9, with the names swapped too
C8_Witness ==
    /\ Len(results) = 2
    /\ results[1].match_type = "EXACT"
    /\ results[1].issues = <<"DOB_MISMATCH">>
    /\ results[1].confidence = 9000
    /\ results[2].match_type = "NAME_SWAP"
    /\ results[2].issues = <<"NAME_SWAPPED", "DOB_MISMATCH">>
    /\ results[2].confidence = 9000

(* C9: is_dob_mob_swapped(event, ref) is true iff event.day = ref.month,   *)
(* event.month = ref.day, the years are equal and event.day # event.month; *)
(* so it is false when day equals month and when the years differ; 0 is a  *)
(* value like any other.                                                   *)
C9_SwappedIffMirrorSameYearDayNotMonth ==
    ret.fn = "is_dob_mob_swapped" =>
        /\ ret.value <=> ( /\ args.event.dob = args.ref.mob
                           /\ args.event.mob = args.ref.dob
                           /\ args.event.yob = args.ref.yob
                           /\ args.event.dob # args.event.mob )
        /\ args.event.dob = args.event.mob => ~ret.value
        /\ args.event.yob # args.ref.yob => ~ret.value

\* event day/month (0, 5) against reference (5, 0)
C9_Witness ==
    /\ ret.fn = "is_dob_mob_swapped"
    /\ args.event.dob = 0 /\ args.event.mob = 5
    /\ args.ref.dob = 5 /\ args.ref.mob = 0
    /\ ret.value = TRUE

(* C10: no issue list of detect_issues, and no result of match_players,    *)
(* holds DOB_MOB_SWAPPED together with DOB_MISMATCH or MOB_MISMATCH; when  *)
(* the date is transposed the list holds DOB_MOB_SWAPPED and neither       *)
(* mismatch code.                                                          *)
C10_SwapCodeExcludesDateMismatchCodes ==
    /\ ret.fn = "detect_issues" => SwapCodeConsistent(ret.value, args.event, args.ref)
    /\ \A i \in Matched :
          SwapCodeConsistent(results[i].issues, EventAt(i), results[i].ref_player)

\* a fuzzy result whose reference has day and month exchanged
C10_Witness ==
    \E i \in Matched :
        /\ results[i].match_type = "FUZZY"
        /\ Transposed(EventAt(i), results[i].ref_player)
        /\ "DOB_MOB_SWAPPED" \in Range(results[i].issues)

-----------------------------------------------------------------------------
\* the issue codes in the order of the rules that emit them
RuleOrder ==
    <<"NAME_SWAPPED", "LASTNAME_FUZZY", "FIRSTNAME_FUZZY", "DOB_MOB_SWAPPED",
      "DOB_MISMATCH", "MOB_MISMATCH", "YOB_MISMATCH", "SEX_MISMATCH",
      "ASSOC_MISMATCH">>

RulePos(code) == CHOOSE k \in DOMAIN RuleOrder : RuleOrder[k] = code

\* the condition under which a rule emits its code
Triggered(code, e, r, mt, ls, fs) ==
    CASE code = "NAME_SWAPPED"    -> mt = "NAME_SWAP"
      [] code = "LASTNAME_FUZZY"  -> mt = "FUZZY" /\ RatLess(ls, RatOne)
      [] code = "FIRSTNAME_FUZZY" -> mt = "FUZZY" /\ RatLess(fs, RatOne)
      [] code = "DOB_MOB_SWAPPED" -> Transposed(e, r)
      [] code = "DOB_MISMATCH"    -> ~Transposed(e, r) /\ e.dob # r.dob
      [] code = "MOB_MISMATCH"    -> ~Transposed(e, r) /\ e.mob # r.mob
      [] code = "YOB_MISMATCH"    -> e.yob # r.yob
      [] code = "SEX_MISMATCH"    -> ~SexOk(e, r)
      [] code = "ASSOC_MISMATCH"  -> ~AffiliationOk(e, r)

\* iss holds exactly the triggered codes, each once, in rule order
ExactlyTriggered(iss, e, r, mt, ls, fs) ==
    /\ Range(iss) = {c \in Range(RuleOrder) : Triggered(c, e, r, mt, ls, fs)}
    /\ \A i, j \in DOMAIN iss : i < j => RulePos(iss[i]) < RulePos(iss[j])

(* C11: detect_issues returns exactly the codes its six rules trigger,     *)
(* each at most once and in rule order; the list is empty for an EXACT     *)
(* match of records that agree in every compared field, and no fuzzy code  *)
(* is emitted for EXACT or NAME_SWAP whatever the similarities.            *)
C11_IssuesAreTheTriggeredCodesInRuleOrder ==
    ret.fn = "detect_issues" =>
        /\ ExactlyTriggered(ret.value, args.event, args.ref, ret.match_type,
                            ret.lastname_sim, ret.firstname_sim)
        /\ (/\ ret.match_type = "EXACT"
            /\ args.event.dob = args.ref.dob
            /\ args.event.mob = args.ref.mob
            /\ FieldsMaximal(args.event, args.ref)) => ret.value = <<>>
        /\ ret.match_type # "FUZZY" =>
              /\ "LASTNAME_FUZZY" \notin Range(ret.value)
              /\ "FIRSTNAME_FUZZY" \notin Range(ret.value)

\* a fuzzy call with both similarities below 1.0, a transposed date and a
\* different sex: four codes, in rule order
C11_Witness ==
    /\ ret.fn = "detect_issues"
    /\ ret.match_type = "FUZZY"
    /\ RatLess(ret.lastname_sim, RatOne)
    /\ RatLess(ret.firstname_sim, RatOne)
    /\ Transposed(args.event, args.ref)
    /\ ret.value = <<"LASTNAME_FUZZY", "FIRSTNAME_FUZZY", "DOB_MOB_SWAPPED",
                     "SEX_MISMATCH">>

-----------------------------------------------------------------------------
\* the result of stage 4: no reference, both scores 0.0, issues [NO_MATCH]
IsUnmatched(res) ==
    /\ res.match_type = "NONE"
    /\ res.ref_player = None
    /\ res.confidence = 0
    /\ res.confidence_tolerant = 0
    /\ res.issues = <<"NO_MATCH">>

(* C12: with an empty reference list every result of match_players has     *)
(* match type NONE, no reference record, confidence 0.0, tolerant          *)
(* confidence 0.0 and issues [NO_MATCH]; every NONE result, whatever the   *)
(* reference list, has confidence 0.0 and tolerant confidence 0.0.         *)
C12_EmptyReferenceGivesUnmatched ==
    \A i \in DOMAIN results :
        /\ ref_players = <<>> => IsUnmatched(results[i])
        /\ results[i].match_type = "NONE" =>
              results[i].confidence = 0 /\ results[i].confidence_tolerant = 0

\* a finished run of two event records against an empty reference list
C12_Witness ==
    /\ pc = "done"
    /\ ref_players = <<>>
    /\ Len(results) = 2
    /\ IsUnmatched(results[1])
    /\ IsUnmatched(results[2])

-----------------------------------------------------------------------------
\* two names are equal after trimming and upper-casing
NamesMatch(a, b) == upper(strip(a)) = upper(strip(b))

\* the references whose (first, last) is the event's (last, first)
SwapCandidates(e) ==
    {j \in DOMAIN ref_players :
        /\ NamesMatch(e.last_name, ref_players[j].first_name)
        /\ NamesMatch(e.first_name, ref_players[j].last_name)}

\* some reference shares the event's own (last, first)
OwnKeyShared(e) ==
    \E j \in DOMAIN ref_players :
        /\ NamesMatch(e.last_name, ref_players[j].last_name)
        /\ NamesMatch(e.first_name, ref_players[j].first_name)

\* the five other fields of the two records are equal, sex and affiliation
\* ignoring case
FiveFieldsAgree(e, r) ==
    e.dob = r.dob /\ e.mob = r.mob /\ e.yob = r.yob /\ SexOk(e, r) /\ AffiliationOk(e, r)

(* C13: in the list match_players returns:                                 *)
(* when an event's (last, first) equals a reference's (first, last)        *)
(* after trim and upper-casing and no reference shares the event's own     *)
(* (last, first), the result is NAME_SWAP, its issues contain NAME_SWAPPED *)
(* and no fuzzy code, its scores are those of a swap candidate with both   *)
(* similarities 1.0, no swap candidate scores higher with 1.0 and 1.0, and *)
(* the confidence is 1.0 if a swap candidate agrees on the five other      *)
(* fields.                                                                 *)
C13_TransposedNameGivesNameSwap ==
    pc = "done" => \A i \in DOMAIN results :
        LET e == EventAt(i)
            res == results[i]
            swaps == SwapCandidates(e)
            conf == [j \in swaps |->
                        calculate_confidence(e, ref_players[j], RatOne, RatOne)]
        IN  (swaps # {} /\ ~OwnKeyShared(e)) =>
                /\ res.match_type = "NAME_SWAP"
                /\ res.issues # <<>> /\ res.issues[1] = "NAME_SWAPPED"
                /\ "LASTNAME_FUZZY" \notin Range(res.issues)
                /\ "FIRSTNAME_FUZZY" \notin Range(res.issues)
                /\ \E j \in swaps :
                      /\ res.ref_player = ref_players[j]
                      /\ res.confidence = conf[j]
                      /\ res.confidence_tolerant =
                            calculate_confidence_tolerant(e, ref_players[j],
                                                          RatOne, RatOne)
                /\ \A j \in swaps : conf[j] <= res.confidence
                /\ (\E j \in swaps : FiveFieldsAgree(e, ref_players[j])) =>
                      res.confidence = 10000

\* names transposed and in another case, two swap candidates, the one that
\* agrees on the five other fields gives confidence 1.0
C13_Witness ==
    \E i \in DOMAIN results :
        /\ results[i].match_type = "NAME_SWAP"
        /\ results[i].confidence = 10000
        /\ results[i].issues = <<"NAME_SWAPPED">>
        /\ EventAt(i).first_name # results[i].ref_player.last_name
        /\ Cardinality(SwapCandidates(EventAt(i))) = 2
        /\ \E j \in SwapCandidates(EventAt(i)) :
              ~FiveFieldsAgree(EventAt(i), ref_players[j])

-----------------------------------------------------------------------------
(* C14: in the list match_players returns:                                 *)
(* the reference of every FUZZY result is in the reference list and        *)
(* has lastSim >= fuzzy_threshold and firstSim >= 0.80 on the trimmed,     *)
(* upper-cased names, and the confidence of the result is computed from    *)
(* these two similarities; a record with no exact and no swap candidate is *)
(* FUZZY when some reference passes both thresholds, with 0.80 for the     *)
(* first name whatever fuzzy_threshold is, and NONE when none does.        *)
C14_FuzzyNeedsBothThresholds ==
    pc = "done" => \A i \in DOMAIN results :
        LET e == EventAt(i)
            res == results[i]
        IN  /\ res.match_type = "FUZZY" =>
                  /\ res.ref_player \in Range(ref_players)
                  /\ RatGeq(LastSim(e, res.ref_player), fuzzy_threshold)
                  /\ RatGeq(FirstSim(e, res.ref_player), <<4, 5>>)
                  /\ res.confidence =
                        calculate_confidence(e, res.ref_player,
                            LastSim(e, res.ref_player), FirstSim(e, res.ref_player))
            /\ res.match_type \in {"FUZZY", "NONE"} =>
                  (res.match_type = "FUZZY" <=>
                      \E j \in DOMAIN ref_players :
                          /\ RatGeq(LastSim(e, ref_players[j]), fuzzy_threshold)
                          /\ RatGeq(FirstSim(e, ref_players[j]), <<4, 5>>))

\* fuzzy_threshold 0.90: a FUZZY result whose first-name similarity is below
\* 0.90, scored below what 1.0 and 1.0 would give, and in the same run a
\* record left unmatched although a reference has its last name
C14_Witness ==
    /\ fuzzy_threshold = <<9, 10>>
    /\ \E i \in DOMAIN results :
          /\ results[i].match_type = "FUZZY"
          /\ RatLess(FirstSim(EventAt(i), results[i].ref_player), <<9, 10>>)
          /\ results[i].confidence <
                calculate_confidence(EventAt(i), results[i].ref_player, RatOne, RatOne)
    /\ \E i \in DOMAIN results :
          /\ results[i].match_type = "NONE"
          /\ \E j \in DOMAIN ref_players :
                /\ RatEq(LastSim(EventAt(i), ref_players[j]), RatOne)
                /\ RatLess(FirstSim(EventAt(i), ref_players[j]), <<4, 5>>)

-----------------------------------------------------------------------------
\* the result for one event record as a function of the reference list, the
\* record and the threshold alone
MatchOne(refs, e, threshold) ==
    LET exact_candidates == dict_get(build_name_index(refs), NameKey(e))
        swap_candidates == dict_get(build_swap_index(refs), NameKey(e))
        fuzzy_result == try_fuzzy_match(e, refs, threshold, DEFAULT_FIRSTNAME_THRESHOLD)
    IN  IF exact_candidates # <<>>
        THEN pick_best_candidate(e, exact_candidates, "EXACT", RatOne, RatOne)
        ELSE IF swap_candidates # <<>>
        THEN pick_best_candidate(e, swap_candidates, "NAME_SWAP", RatOne, RatOne)
        ELSE IF fuzzy_result # None THEN fuzzy_result
        ELSE MatchResult(e, None, "NONE", 0, 0, <<"NO_MATCH">>)

(* C15: in the list match_players returns,                                 *)
(* the result for an event record is a function of the reference           *)
(* list, that record and fuzzy_threshold only: wherever the record stands  *)
(* in the event list and whatever records stand beside it, its result is   *)
(* the one a run on that record alone gives, so equal inputs give equal    *)
(* result lists.                                                           *)
C15_ResultDependsOnItsRecordOnly ==
    pc = "done" => \A i \in DOMAIN results :
        results[i] = MatchOne(ref_players, EventAt(i), fuzzy_threshold)

\* a finished run where a record matched by exact lookup stands behind a
\* record that was matched by transposed names
C15_Witness ==
    /\ pc = "done"
    /\ Len(results) = 2
    /\ results[1].match_type = "NAME_SWAP"
    /\ results[2].match_type = "EXACT"
    /\ results[1].ref_player = results[2].ref_player

-----------------------------------------------------------------------------
(* C16: for every pair of records and all similarities in [0,1] the        *)
(* tolerant confidence is at least the confidence and at most 1.0, and     *)
(* every result of match_players has confidence_tolerant >= confidence.    *)
C16_TolerantAtLeastConfidence ==
    /\ ret.fn = "calculate_confidence_tolerant" =>
          /\ ret.value >= calculate_confidence(args.event, args.ref,
                                               ret.lastname_sim, ret.firstname_sim)
          /\ ret.value <= 10000
    /\ \A i \in DOMAIN results :
          results[i].confidence_tolerant >= results[i].confidence

\* last names that differ by a diacritic and case, similarity 0.85 passed
\* in: the tolerant score is strictly higher
C16_Witness ==
    /\ ret.fn = "calculate_confidence_tolerant"
    /\ args.event.last_name = Mueller
    /\ args.ref.last_name = MULLER
    /\ ret.lastname_sim = <<17, 20>>
    /\ ret.value > calculate_confidence(args.event, args.ref,
                                        ret.lastname_sim, ret.firstname_sim)

-----------------------------------------------------------------------------
\* the upper-case base letters a character stands for: none for a combining
\* mark and for space, hyphen, period, comma, semicolon
BaseLetters(c) ==
    CASE c \in {" ", "-", ".", ",", ";", "acute", "uml"} -> <<>>
      [] c \in {"e_acute", "E_acute"} -> <<"E">>
      [] c \in {"u_uml", "U_uml"}     -> <<"U">>
      [] c = "sz"                     -> <<"S", "S">>
      [] OTHER -> upper_char(c)

RECURSIVE Letters(_)
Letters(s) == IF s = <<>> THEN <<>> ELSE BaseLetters(Head(s)) \o Letters(Tail(s))

\* two names differ at most by diacritics, case and the five characters
SameLetters(a, b) == Letters(a) = Letters(b)

\* the similarity a name counts with in the tolerant score
TolerantSim(a, b, sim) ==
    IF SameLetters(a, b) THEN RatOne
    ELSE RatMax(sim, JaroWinklerSimilarity(normalize_for_tolerant_comparison(a),
                                           normalize_for_tolerant_comparison(b)))

-----------------------------------------------------------------------------
\* the second application returned its argument
NormalizedIsFixed ==
    (ret.fn = "normalize_for_tolerant_comparison" /\ ret.again) =>
        ret.value = args.text

\* the output holds no nonspacing mark and none of the five characters
NormalizedIsClean ==
    ret.fn = "normalize_for_tolerant_comparison" =>
        Range(ret.value) \cap (CategoryMn \cup TolerantRemoved) = {}

\* an ASCII-only input is upper-cased and loses the five characters
NormalizedAsciiKept ==
    (/\ ret.fn = "normalize_for_tolerant_comparison"
     /\ Range(args.text) \subseteq AsciiChars) =>
        ret.value = upper(Without(args.text, TolerantRemoved))

(* C18: normalize_for_tolerant_comparison is idempotent: applied to its    *)
(* own output it returns that output; the output holds no combining mark,  *)
(* space, hyphen, period, comma or semicolon; an ASCII-only input is       *)
(* changed only by upper-casing and the removal of those five characters.  *)
C18_NormalizeIsIdempotentAndClean ==
    NormalizedIsFixed /\ NormalizedIsClean /\ NormalizedAsciiKept

-----------------------------------------------------------------------------
\* the positions of a run that works on the record at idx
StagePositions == {"exact", "swap", "fuzzy", "none"}

(* C19: match_players is total: whatever the reference list and the event  *)
(* list (empty names, zero dates and several references under one key      *)
(* included) the assertion of _pick_best_candidate never fails, every      *)
(* result with a reference has a confidence above the initial best of      *)
(* -1.0, every stage has a record to work on, and the run returns only     *)
(* with one result for every record.                                       *)
C19_ResolverIsTotal ==
    /\ pc # "AssertionError"
    /\ pc \in StagePositions \cup {"build", "return", "done"}
    /\ pc \in StagePositions => idx \in DOMAIN event_players
    /\ pc \in {"return", "done"} => Len(results) = Len(event_players)
    /\ \A i \in DOMAIN results :
          results[i].ref_player # None => results[i].confidence > -10000

\* a returned run with two references under one key, matched by exact
\* lookup, and a record with an empty first name and zero dates
C19_Witness ==
    /\ pc = "done"
    /\ Len(ref_players) = 2
    /\ NameKey(ref_players[1]) = NameKey(ref_players[2])
    /\ Len(results) = 2
    /\ results[1].match_type = "EXACT"
    /\ event_players[2].first_name = <<>>
    /\ event_players[2].dob = 0

-----------------------------------------------------------------------------
\* the sum of the weights, in hundredths
WeightSum ==
    WEIGHTS.lastname + WEIGHTS.firstname + WEIGHTS.dob + WEIGHTS.mob
        + WEIGHTS.yob + WEIGHTS.sex + WEIGHTS.association

\* a score between 0.0 and 1.0, in ten-thousandths
InUnitInterval(v) == 0 <= v /\ v <= 10000

(* C20: the weights are non-negative and sum to 1.0; for similarities in   *)
(* [0,1] calculate_confidence and calculate_confidence_tolerant return a   *)
(* value in [0,1]; every result of match_players has confidence and        *)
(* confidence_tolerant in [0,1] and a match type among EXACT, NAME_SWAP,   *)
(* FUZZY and NONE.                                                         *)
C20_ScoresInUnitInterval ==
    /\ \A k \in DOMAIN WEIGHTS : WEIGHTS[k] >= 0
    /\ WeightSum = 100
    /\ ret.fn \in {"calculate_confidence", "calculate_confidence_tolerant"} =>
          InUnitInterval(ret.value)
    /\ \A i \in DOMAIN results :
          /\ InUnitInterval(results[i].confidence)
          /\ InUnitInterval(results[i].confidence_tolerant)
          /\ results[i].match_type \in {"EXACT", "NAME_SWAP", "FUZZY", "NONE"}

\* a returned run that holds both ends of the interval: a result of
\* confidence 1.0 and one of confidence 0.0
C20_Witness ==
    /\ pc = "done"
    /\ \E i, j \in DOMAIN results :
          /\ results[i].confidence = 10000
          /\ results[i].confidence_tolerant = 10000
          /\ results[j].confidence = 0
          /\ results[j].match_type = "NONE"


-----------------------------------------------------------------------------
(* C21: read_players on structurally invalid files and on rows that do not *)
(* parse.                                                                  *)

\* the file has a header line with every required column
StructurallyValid ==
    /\ args.fieldnames # None
    /\ \A col \in required_cols :
          \E k \in DOMAIN args.fieldnames :
             normalize_whitespace(args.fieldnames[k]) = col

\* the text of a row in a column, empty where the row has no such field
Field(row, col) ==
    LET K == {k \in DOMAIN args.fieldnames :
                 normalize_whitespace(args.fieldnames[k]) = col}
        k == CHOOSE x \in K : \A y \in K : y <= x
    IN  IF k \in DOMAIN row THEN normalize_whitespace(row[k]) ELSE <<>>

IsInteger(text) ==
    /\ text # <<>>
    /\ \A k \in DOMAIN text : \E d \in DOMAIN DigitChars : DigitChars[d] = text[k]

\* a non-empty, non-integer DoB, MoB or YoB
FailsToParse(row) ==
    \E col \in {DoB, MoB, YoB} :
       Field(row, col) # <<>> /\ ~IsInteger(Field(row, col))

IsDataRow(row) == row # <<>>

KeptRow(row) == IsDataRow(row) /\ ~FailsToParse(row)

\* the data rows of the file that do not fail to parse, in file order
KeptRows == SelectSeq(args.rows, KeptRow)

\* the returned list holds the kept rows in file order, an empty date as 0
ReturnsKeptRows ==
    /\ ret.raised = "none"
    /\ Len(ret.value) = Len(KeptRows)
    /\ \A j \in DOMAIN KeptRows :
          /\ j \in DOMAIN ret.value
          /\ ret.value[j].extern_id = Field(KeptRows[j], ExternID)
          /\ Field(KeptRows[j], DoB) = <<>> => ret.value[j].dob = 0
          /\ Field(KeptRows[j], MoB) = <<>> => ret.value[j].mob = 0
          /\ Field(KeptRows[j], YoB) = <<>> => ret.value[j].yob = 0

\* C21: a file without header line or without a required column raises
\* ValueError and yields no records; otherwise the call returns, in file
\* order, every data row except those with a non-empty, non-integer DoB, MoB
\* or YoB, and an empty date field is returned as the integer 0.
C21_ReadPlayersSkipsUnparsableRows ==
    ret.fn = "read_players" =>
       IF StructurallyValid
       THEN ReturnsKeptRows
       ELSE ret.raised = "ValueError" /\ ret.value = <<>>


-----------------------------------------------------------------------------
(* C22: a FUZZY result has a fuzzy name code.                              *)

HasCode(i, code) == code \in Range(results[i].issues)

SameNormalized(a, b) == normalize_key(a) = normalize_key(b)

\* C22: in the list match_players returns, every FUZZY result carries at
\* least one of LASTNAME_FUZZY and FIRSTNAME_FUZZY: no reference has the
\* normalized (last, first) key of its event record, each of its two
\* similarities is 1.0 only for identical normalized names, and so the two
\* are never 1.0 at once.
C22_FuzzyResultHasFuzzyCode ==
    pc = "done" =>
       \A i \in DOMAIN results :
          results[i].match_type = "FUZZY" =>
             LET e == EventAt(i)
                 r == results[i].ref_player
                 lastOne == RatEq(ResultLastSim(i), RatOne)
                 firstOne == RatEq(ResultFirstSim(i), RatOne)
             IN  /\ ~HasExactKey(e)
                 /\ lastOne <=> SameNormalized(e.last_name, r.last_name)
                 /\ firstOne <=> SameNormalized(e.first_name, r.first_name)
                 /\ ~(lastOne /\ firstOne)
                 /\ HasCode(i, "LASTNAME_FUZZY") \/ HasCode(i, "FIRSTNAME_FUZZY")

\* match_players has returned a FUZZY result whose only name code is
\* LASTNAME_FUZZY, the first names being identical after normalization
C22_Witness ==
    /\ pc = "done"
    /\ \E i \in DOMAIN results :
          /\ results[i].match_type = "FUZZY"
          /\ HasCode(i, "LASTNAME_FUZZY")
          /\ ~HasCode(i, "FIRSTNAME_FUZZY")
          /\ SameNormalized(EventAt(i).first_name, results[i].ref_player.first_name)

====
